---- MODULE Spec2Model ----
(***************************************************************************)
(* Voucher numbering and idempotent submission of the Nepal Sales pathway  *)
(* (src/app/api/nepal/sale/route.ts, the live handler at lines 221-383).   *)
(*                                                                         *)
(* Each request slot runs the POST handler: a sequential loop over the     *)
(* items of its batch. Every await of the handler (a database round trip   *)
(* or the call to the cloud) is one step, so that two handlers interleave  *)
(* exactly where the event loop lets them.                                 *)
(***************************************************************************)
EXTENDS Integers, Sequences, FiniteSets, Bags, TLC

VARIABLES
    counters,   \* dbo.VoucherCounters, committed rows: counter key -> CurrentNo
    ledger,     \* dbo.VoucherIdempotency, committed rows in insertion order
    cloud,      \* the cloud's accepted vouchers: a bag of [doc, counterKey, voucherno, sent]
    pc,         \* per request: the await the handler is suspended at
    batch,      \* per request: `data` of the request body
    idx,        \* per request: position of the for-of loop (1-based)
    cand,       \* per request: the candidate returned by getCandidateNumber
    tx,         \* per request: the open transaction's uncommitted writes
    results,    \* per request: the `results` array
    commitLog,  \* history: one entry per committed transaction, in commit order
    received,   \* history: number of items received so far, over all requests
    keysUsed,   \* history: how many of the callers' keys have been sent so far
    form,       \* a voucher form in the browser: its state and the position of handlePushToCloud
    wire,       \* history: what the form's current push has sent, and what was reported back
    syncRows,   \* TallyVoucherSyncLog: a bag of rows
    sl          \* per handler of POST /api/sync-log: its position and locals

vars == <<counters, ledger, cloud, pc, batch, idx, cand, tx, results, commitLog, received, keysUsed,
          form, wire, syncRows, sl>>

\* The state of the sale handler and its tables, of the forms, and of the sync log.
saleVars == <<counters, ledger, cloud, pc, batch, idx, cand, tx, results, commitLog, received, keysUsed>>
formVars == <<form, wire>>
syncVars == <<syncRows, sl>>

----------------------------------------------------------------------------
(* Bounds of the model *)

MaxBatch == 3        \* longest `data` array a request carries
MaxItems == 3        \* items received in one behaviour, over all requests
MaxNo == 1999        \* largest counter value formatVoucherNo is exercised from
MaxInvoice == 2      \* invoice numbers the form has loaded: 1..MaxInvoice
batchSize == 1       \* vouchers per POST of a push (50 in the forms), scaled to the invoices
maxRetries == 2      \* submitWithRetry's default in the Nepal form

Reqs == {"r1", "r2"}             \* handlers that may be in flight together
Undefined == "<undefined>"       \* a field the caller left out
None == "<none>"                 \* a field a result does not carry
IKeys == {"k1", "k2", "k3"}      \* idempotency keys callers generate for region nepal
KeyInputs == IKeys \cup {Undefined}
Returned == {"idle", "sent200", "sent500"}   \* no handler running: none started yet, or the last one returned 200 or 500

----------------------------------------------------------------------------
(* formatVoucherNo *)

DigitChars == <<"0", "1", "2", "3", "4", "5", "6", "7", "8", "9">>

RECURSIVE toString(_)
toString(n) ==
    IF n < 10 THEN <<DigitChars[n + 1]>>
    ELSE toString(n \div 10) \o <<DigitChars[(n % 10) + 1]>>

RECURSIVE PadStart(_, _, _)
PadStart(s, w, c) == IF Len(s) >= w THEN s ELSE PadStart(<<c>> \o s, w, c)

\* The format the comment above the function announces (AQNS/0001): width 4 throughout.
formatVoucherNoFour(n) ==
    <<"A", "Q", "N", "S", "/">> \o PadStart(toString(n), 4, "0")

formatVoucherNo(n) ==
    <<"A", "Q", "N", "S", "/">> \o PadStart(toString(n), IF n >= 1000 THEN 4 ELSE 3, "0")

----------------------------------------------------------------------------
(* Items and their routing fields *)

\* An element of `data` that is JSON null: reading any property of it throws a
\* TypeError.
Null == [idempotencyKey |-> "<null>", region |-> "<null>", vouchertype |-> "<null>"]

Items ==
    [idempotencyKey : KeyInputs, region : {Undefined}, vouchertype : {Undefined}]
        \cup [idempotencyKey : {"i1"}, region : {"india"}, vouchertype : {Undefined}]
        \cup {Null}

\* Callers generate fresh keys: the n-th new key a behaviour sends is KeyOrder[n].
\* Every behaviour is one of these up to a renaming of the keys.
KeyOrder == <<"k1", "k2", "k3">>
KeyIndex(key) == CHOOSE n \in 1..Len(KeyOrder) : KeyOrder[n] = key

RECURSIVE KeysAfter(_, _)
KeysAfter(b, used) ==
    IF b = <<>> THEN used
    ELSE LET key == Head(b).idempotencyKey
         IN IF key \notin IKeys THEN KeysAfter(Tail(b), used)
            ELSE IF KeyIndex(key) <= used THEN KeysAfter(Tail(b), used)
            ELSE IF KeyIndex(key) = used + 1 THEN KeysAfter(Tail(b), used + 1)
            ELSE -1   \* a key sent out of order

InKeyOrder(b, used) == KeysAfter(b, used) >= 0

Batches == UNION {[1..n -> Items] : n \in 0..MaxBatch}

\* A test that takes every value for a key.
FalsyNever(v) == FALSE

OrDefault(v, d) == IF v \in {Undefined, ""} THEN d ELSE v

RegionOf(item) == OrDefault(item.region, "nepal")
VoucherTypeOf(item) == OrDefault(item.vouchertype, "Sales")
CounterKey(item) == <<RegionOf(item), VoucherTypeOf(item)>>

Falsy(v) == v \in {Undefined, ""}

Item(r) == batch[r][idx[r]]

----------------------------------------------------------------------------
(* Tables *)

\* A lookup that compares the key with the wrong column and so finds nothing.
LedgerSelectWrongColumn(key) == SelectSeq(ledger, LAMBDA row : row.Region = key)

\* A handler that skips the lookup.
LedgerSelectSkipped(key) == <<>>

\* SELECT VoucherNo FROM dbo.VoucherIdempotency WHERE IdempotencyKey=@key
LedgerSelect(key) == SelectSeq(ledger, LAMBDA row : row.IdempotencyKey = key)

\* A ledger table without its key constraint.
NoKeyConstraint(key) == FALSE

\* The key constraint of dbo.VoucherIdempotency: an INSERT of a key the table
\* holds is refused.
LedgerKeyViolation(key) == \E i \in 1..Len(ledger) : ledger[i].IdempotencyKey = key

\* r.recordset[0]?.CurrentNo || 0
CurrentNo(k) == IF k \in DOMAIN counters THEN counters[k] ELSE 0

\* An open transaction's uncommitted writes: the counter value its UPDATE set
\* and the ledger row its INSERT added (each a sequence of at most one).
NoTx == [ctr |-> <<>>, row |-> <<>>]

NoCand == [next |-> 0, formatted |-> <<>>]

\* The exclusive row lock an uncommitted UPDATE holds on a counter row.
RowLockedByOther(r, k) ==
    \E q \in Reqs \ {r} : tx[q].ctr # <<>> /\ CounterKey(Item(q)) = k

\* An uncommitted INSERT of the same key by another transaction.
KeyLockedByOther(r, key) ==
    \E q \in Reqs \ {r} : tx[q].row # <<>> /\ tx[q].row[1].IdempotencyKey = key

----------------------------------------------------------------------------
(* The cloud's answers *)

S101 == [type |-> "string", val |-> 101]
N101 == [type |-> "number", val |-> 101]
NoCode == [type |-> "undefined", val |-> 0]

\* What axios.post resolves to or throws, and whether the cloud stored the
\* voucher: it stores it exactly when it answers with its accept code.
Responses ==
    { [http |-> "ok", isArray |-> TRUE, statuscode |-> S101, stored |-> TRUE],
      [http |-> "ok", isArray |-> TRUE, statuscode |-> N101, stored |-> TRUE],
      [http |-> "ok", isArray |-> TRUE, statuscode |-> [type |-> "string", val |-> 200], stored |-> FALSE],
      [http |-> "ok", isArray |-> TRUE, statuscode |-> NoCode, stored |-> FALSE],
      [http |-> "ok", isArray |-> FALSE, statuscode |-> NoCode, stored |-> FALSE],
      [http |-> "throw", isArray |-> FALSE, statuscode |-> NoCode, stored |-> FALSE] }

\* An acceptance test that forgets the status code.
IsOkAnyArray(answer) == answer.isArray

\* An acceptance test that knows the accept code only as a string.
IsOkStringOnly(answer) == answer.isArray /\ answer.statuscode = S101

\* Array.isArray(resp?.data) && (resp.data[0]?.statuscode === "101" || resp.data[0]?.statuscode === 101)
IsOk(answer) ==
    /\ answer.isArray
    /\ (answer.statuscode = S101 \/ answer.statuscode = N101)

\* resp?.data[0]?.statusmessage || ... || "Cloud rejected", or the thrown error's message
RejectMessage(answer) ==
    IF answer.http = "throw" THEN "Request failed"
    ELSE IF answer.isArray /\ answer.statuscode # NoCode THEN "statusmessage"
    ELSE "Cloud rejected"

----------------------------------------------------------------------------
(* Results *)

Failed(key, msg) == [idempotencyKey |-> key, ok |-> FALSE, voucherno |-> None, message |-> msg]
Succeeded(key, no) == [idempotencyKey |-> key, ok |-> TRUE, voucherno |-> no, message |-> None]

\* A loop that drops the results of failed items.
PushOnlyOk(r, res) ==
    /\ results' = [results EXCEPT ![r] = IF res.ok THEN Append(@, res) ELSE @]
    /\ idx' = [idx EXCEPT ![r] = @ + 1]
    /\ pc' = [pc EXCEPT ![r] = "loop"]
    /\ cand' = [cand EXCEPT ![r] = NoCand]
    /\ tx' = [tx EXCEPT ![r] = NoTx]

\* results.push(...) followed by the loop moving to the next item
PushAndContinue(r, res) ==
    /\ results' = [results EXCEPT ![r] = Append(@, res)]
    /\ idx' = [idx EXCEPT ![r] = @ + 1]
    /\ pc' = [pc EXCEPT ![r] = "loop"]
    /\ cand' = [cand EXCEPT ![r] = NoCand]
    /\ tx' = [tx EXCEPT ![r] = NoTx]

----------------------------------------------------------------------------
(* The parts outside the sale handler, when they are at rest *)

Handlers == {"h1", "h2"}         \* handlers of POST /api/sync-log that may run together

NoWire == [purchase |-> 0, sale |-> 0, india |-> 0, syncLog |-> 0, reportedOk |-> 0]
NoMeta == [null |-> TRUE, start_voucher |-> 0, end_voucher |-> 0]
NoResult == [success |-> FALSE, retries |-> 0]
NoStats == [total |-> 0, successful |-> 0, failed |-> 0, retried |-> 0]

\* No form is mounted.
NoForm ==
    [which |-> "none", pc |-> "idle", selectedInvoiceNos |-> {}, syncMeta |-> NoMeta,
     modalOpen |-> FALSE, uploading |-> FALSE, pushing |-> FALSE, uploadStats |-> NoStats,
     i |-> 0, successful |-> 0, failed |-> 0, retried |-> 0,
     type |-> "none", attempt |-> 0, posts |-> 0, answer |-> "none", result |-> NoResult]

NoBody == [region |-> "none", voucher_type |-> "none", end_voucher |-> 0]
NoCall == [pc |-> "idle", body |-> NoBody, logExists |-> FALSE, status |-> 0]

----------------------------------------------------------------------------
Init ==
    /\ form = NoForm
    /\ wire = NoWire
    /\ syncRows = EmptyBag
    /\ sl = [h \in Handlers |-> NoCall]
    /\ counters = <<>>
    /\ ledger = <<>>
    /\ cloud = EmptyBag
    /\ pc = [r \in Reqs |-> "idle"]
    /\ batch = [r \in Reqs |-> <<>>]
    /\ idx = [r \in Reqs |-> 1]
    /\ cand = [r \in Reqs |-> NoCand]
    /\ tx = [r \in Reqs |-> NoTx]
    /\ results = [r \in Reqs |-> <<>>]
    /\ commitLog = <<>>
    /\ received = 0
    /\ keysUsed = 0

\* const { data } = await request.json(); const results = []
Start(r) ==
    /\ pc[r] \in Returned
    /\ \E b \in Batches :
        /\ received + Len(b) <= MaxItems
        /\ InKeyOrder(b, keysUsed)
        /\ keysUsed' = KeysAfter(b, keysUsed)
        /\ batch' = [batch EXCEPT ![r] = b]
        /\ received' = received + Len(b)
    /\ idx' = [idx EXCEPT ![r] = 1]
    /\ results' = [results EXCEPT ![r] = <<>>]
    /\ pc' = [pc EXCEPT ![r] = "loop"]
    /\ UNCHANGED <<counters, ledger, cloud, cand, tx, commitLog>>
    /\ UNCHANGED <<formVars, syncVars>>

\* The Nepal voucher form: prepareSalesData numbers the selected entries itself,
\* from the number its sync log showed, and returns one object per entry.
FormItem(no) ==
    [branchName |-> "AirIQ Nepal", vouchertype |-> "Sales",
     voucherno |-> formatVoucherNo(no), narration |-> "PNR"]

prepareSalesData(n, lastVoucher) == [i \in 1..n |-> FormItem(lastVoucher + i)]

\* An item as the handler reads it: a routing field the object lacks reads as
\* undefined.
Received(item) ==
    [f \in DOMAIN item \cup {"idempotencyKey", "region", "vouchertype"} |->
        IF f \in DOMAIN item THEN item[f] ELSE Undefined]

\* handlePushToCloud: submitWithRetry(prepareSalesData(batch, exchangeRate), "sale")
\* posts { data: salesPayload } to /api/nepal/sale
FormPush(r) ==
    /\ pc[r] \in Returned
    /\ \E n \in 1..MaxBatch :
        LET salesPayload == prepareSalesData(n, 0)
        IN /\ received + n <= MaxItems
           /\ batch' = [batch EXCEPT ![r] = [i \in 1..n |-> Received(salesPayload[i])]]
           /\ received' = received + n
    /\ idx' = [idx EXCEPT ![r] = 1]
    /\ results' = [results EXCEPT ![r] = <<>>]
    /\ pc' = [pc EXCEPT ![r] = "loop"]
    /\ UNCHANGED <<counters, ledger, cloud, cand, tx, commitLog, keysUsed>>
    /\ UNCHANGED <<formVars, syncVars>>

\* if (!idempotencyKey) { results.push(...); continue; }
MissingKey(r) ==
    /\ pc[r] = "loop"
    /\ idx[r] <= Len(batch[r])
    /\ Item(r) # Null
    /\ Falsy(Item(r).idempotencyKey)
    /\ PushAndContinue(r, Failed("(missing)", "idempotencyKey required"))
    /\ UNCHANGED <<counters, ledger, cloud, batch, commitLog, received, keysUsed>>
    /\ UNCHANGED <<formVars, syncVars>>

\* A. Check Idempotency
CheckIdempotency(r) ==
    /\ pc[r] = "loop"
    /\ idx[r] <= Len(batch[r])
    /\ Item(r) # Null
    /\ ~Falsy(Item(r).idempotencyKey)
    /\ LET key == Item(r).idempotencyKey
           recordset == LedgerSelect(key)
       IN \/ /\ Len(recordset) > 0
             /\ PushAndContinue(r, Succeeded(key, recordset[1].VoucherNo))
          \/ /\ Len(recordset) = 0
             /\ pc' = [pc EXCEPT ![r] = "ensure"]
             /\ UNCHANGED <<results, idx, cand, tx>>
    /\ UNCHANGED <<counters, ledger, cloud, batch, commitLog, received, keysUsed>>
    /\ UNCHANGED <<formVars, syncVars>>

\* getCandidateNumber, first query: IF NOT EXISTS (...) INSERT ... VALUES (@region, @type, '', 0)
EnsureRow(r) ==
    /\ pc[r] = "ensure"
    /\ LET k == CounterKey(Item(r))
       IN /\ counters' = IF k \in DOMAIN counters THEN counters ELSE (k :> 0) @@ counters
          /\ pc' = [pc EXCEPT ![r] = "read"]
          /\ UNCHANGED <<results, idx, cand, tx>>
    /\ UNCHANGED <<ledger, cloud, batch, commitLog, received, keysUsed>>
    /\ UNCHANGED <<formVars, syncVars>>

\* A candidate that leaves a gap after the current number.
NextOfSkipping(current) == current + 2

\* getCandidateNumber, second query and the computation of next and formatted
NextOf(current) == current + 1

ReadCurrent(r) ==
    /\ pc[r] = "read"
    /\ LET k == CounterKey(Item(r))
           next == NextOf(CurrentNo(k))
       IN /\ cand' = [cand EXCEPT ![r] = [next |-> next, formatted |-> formatVoucherNo(next)]]
          /\ pc' = [pc EXCEPT ![r] = "post"]
          /\ UNCHANGED <<results, idx, tx>>
    /\ UNCHANGED <<counters, ledger, cloud, batch, commitLog, received, keysUsed>>
    /\ UNCHANGED <<formVars, syncVars>>

\* A payload built from the whole item.
PayloadOfWholeItem(item, voucherno) ==
    [f \in DOMAIN item \cup {"voucherno"} |-> IF f = "voucherno" THEN voucherno ELSE item[f]]

\* C. Prepare Payload: const { idempotencyKey, region, ...clean } = item;
\* payload = { ...clean, voucherno }
Payload(item, voucherno) ==
    LET clean == [f \in DOMAIN item \ {"idempotencyKey", "region"} |-> item[f]]
    IN [f \in DOMAIN clean \cup {"voucherno"} |-> IF f = "voucherno" THEN voucherno ELSE clean[f]]

\* D. Send to Cloud, and the test of its answer. The cloud keeps the document
\* it accepted (sent); doc and counterKey name the logical voucher and the
\* numbering series the document belongs to.
CloudPost(r) ==
    /\ pc[r] = "post"
    /\ \E answer \in Responses :
        LET payload == Payload(Item(r), cand[r].formatted)
        IN /\ cloud' = IF answer.stored
                       THEN cloud (+) SetToBag({[doc |-> Item(r).idempotencyKey,
                                                 counterKey |-> CounterKey(Item(r)),
                                                 voucherno |-> payload.voucherno,
                                                 sent |-> payload]})
                       ELSE cloud
           /\ IF IsOk(answer)
              THEN /\ pc' = [pc EXCEPT ![r] = "update"]
                   /\ UNCHANGED <<results, idx, cand, tx>>
              ELSE PushAndContinue(r, Failed(Item(r).idempotencyKey, RejectMessage(answer)))
    /\ UNCHANGED <<counters, ledger, batch, commitLog, received, keysUsed>>
    /\ UNCHANGED <<formVars, syncVars>>

----------------------------------------------------------------------------
(* commitNumber: one transaction of an UPDATE and an INSERT *)

\* Statements issued outside the transaction (requests not bound to tx): the
\* UPDATE is committed on its own and a rollback does not undo it.
AutocommittedCounters(ctrs, k, pending) ==
    IF pending = <<>> THEN ctrs ELSE [ctrs EXCEPT ![k] = pending[1]]

\* The counter table as other requests see it once the transaction has ended
\* in tx.rollback(): the uncommitted UPDATE is discarded.
RolledBackCounters(ctrs, k, pending) == ctrs

\* An UPDATE without its WHERE clause: every counter row takes the number.
CommittedEveryCounter(ctrs, k, pending) == [x \in DOMAIN ctrs |-> pending[1]]

\* The tables once tx.commit() has succeeded: both writes become visible together.
CommittedCounters(ctrs, k, pending) == [ctrs EXCEPT ![k] = pending[1]]
CommittedLedger(rows, pending) == rows \o pending

\* catch (e) { await tx.rollback(); throw e; } and the handler's catch
RollbackAndFail(r, msg) ==
    /\ counters' = RolledBackCounters(counters, CounterKey(Item(r)), tx[r].ctr)
    /\ PushAndContinue(r, Failed(Item(r).idempotencyKey, msg))
    /\ UNCHANGED <<ledger, commitLog>>

\* A handler that does not look at the number of rows its UPDATE changed.
RowsAffectedUnchecked(ctrs, k) == 1

\* updateResult.rowsAffected[0]: the rows the WHERE clause of the UPDATE matches
RowsAffected(ctrs, k) == IF k \in DOMAIN ctrs THEN 1 ELSE 0

\* tx.begin() and the UPDATE of the counter row, with the rowsAffected check
TxUpdate(r) ==
    /\ pc[r] = "update"
    /\ LET k == CounterKey(Item(r))
           rowsAffected == RowsAffected(counters, k)
       IN \/ /\ ~RowLockedByOther(r, k)
             /\ rowsAffected = 0
             /\ RollbackAndFail(r, "CRITICAL: Failed to update voucher counter")
          \/ /\ ~RowLockedByOther(r, k)
             /\ rowsAffected # 0
             /\ tx' = [tx EXCEPT ![r] = [ctr |-> <<cand[r].next>>, row |-> <<>>]]
             /\ pc' = [pc EXCEPT ![r] = "insert"]
             /\ UNCHANGED <<counters, ledger, commitLog, results, idx, cand>>
          \/ RollbackAndFail(r, "db error")
    /\ UNCHANGED <<cloud, batch, received, keysUsed>>
    /\ UNCHANGED <<formVars, syncVars>>

\* A ledger row that does not record the number.
LedgerRowWithoutNo(item, voucherNo) ==
    [IdempotencyKey |-> item.idempotencyKey, Region |-> RegionOf(item),
     VoucherType |-> VoucherTypeOf(item), VoucherNo |-> <<>>]

\* The INSERT into dbo.VoucherIdempotency
LedgerRow(item, voucherNo) ==
    [IdempotencyKey |-> item.idempotencyKey, Region |-> RegionOf(item),
     VoucherType |-> VoucherTypeOf(item), VoucherNo |-> voucherNo]

TxInsert(r) ==
    /\ pc[r] = "insert"
    /\ LET key == Item(r).idempotencyKey
       IN \/ /\ ~KeyLockedByOther(r, key)
             /\ LedgerKeyViolation(key)
             /\ RollbackAndFail(r, "Violation of PRIMARY KEY constraint")
          \/ /\ ~KeyLockedByOther(r, key)
             /\ ~LedgerKeyViolation(key)
             /\ tx' = [tx EXCEPT ![r].row = <<LedgerRow(Item(r), cand[r].formatted)>>]
             /\ pc' = [pc EXCEPT ![r] = "commit"]
             /\ UNCHANGED <<counters, ledger, commitLog, results, idx, cand>>
          \/ RollbackAndFail(r, "db error")
    /\ UNCHANGED <<cloud, batch, received, keysUsed>>
    /\ UNCHANGED <<formVars, syncVars>>

\* tx.commit(), then results.push({ idempotencyKey, ok: true, voucherno })
TxCommit(r) ==
    /\ pc[r] = "commit"
    /\ LET k == CounterKey(Item(r))
       IN \/ /\ counters' = CommittedCounters(counters, k, tx[r].ctr)
             /\ ledger' = CommittedLedger(ledger, tx[r].row)
             /\ commitLog' = Append(commitLog,
                    [counterKey |-> k, idempotencyKey |-> Item(r).idempotencyKey,
                     next |-> cand[r].next, voucherNo |-> cand[r].formatted])
             /\ PushAndContinue(r, Succeeded(Item(r).idempotencyKey, cand[r].formatted))
          \/ RollbackAndFail(r, "db error")
    /\ UNCHANGED <<cloud, batch, received, keysUsed>>
    /\ UNCHANGED <<formVars, syncVars>>

\* return NextResponse.json({ results }, { status: 200 }): the handler returns
\* and its locals are gone
Respond(r) ==
    /\ pc[r] = "loop"
    /\ idx[r] > Len(batch[r])
    /\ pc' = [pc EXCEPT ![r] = "sent200"]
    /\ batch' = [batch EXCEPT ![r] = <<>>]
    /\ idx' = [idx EXCEPT ![r] = 1]
    /\ results' = [results EXCEPT ![r] = <<>>]
    /\ UNCHANGED <<counters, ledger, cloud, cand, tx, commitLog, received, keysUsed>>
    /\ UNCHANGED <<formVars, syncVars>>

\* catch (error) { return NextResponse.json({ error: ... }, { status: 500 }) }:
\* the handler returns without its results
GlobalError(r) ==
    /\ pc' = [pc EXCEPT ![r] = "sent500"]
    /\ batch' = [batch EXCEPT ![r] = <<>>]
    /\ idx' = [idx EXCEPT ![r] = 1]
    /\ results' = [results EXCEPT ![r] = <<>>]
    /\ UNCHANGED <<counters, ledger, cloud, cand, tx, commitLog, keysUsed>>

\* request.json() rejects, or `data` is not iterable: thrown before the loop
BadBody(r) ==
    /\ pc[r] \in Returned
    /\ received < MaxItems
    /\ received' = received + 1
    /\ GlobalError(r)
    /\ UNCHANGED <<formVars, syncVars>>

\* item.region of an element that is null: thrown inside the loop, before the
\* item's try block
ItemThrows(r) ==
    /\ pc[r] = "loop"
    /\ idx[r] <= Len(batch[r])
    /\ Item(r) = Null
    /\ received' = received
    /\ GlobalError(r)
    /\ UNCHANGED <<formVars, syncVars>>

Next ==
    \E r \in Reqs :
        \/ Start(r)
        \/ FormPush(r)
        \/ MissingKey(r)
        \/ CheckIdempotency(r)
        \/ EnsureRow(r)
        \/ ReadCurrent(r)
        \/ CloudPost(r)
        \/ TxUpdate(r)
        \/ TxInsert(r)
        \/ TxCommit(r)
        \/ Respond(r)
        \/ BadBody(r)
        \/ ItemThrows(r)

Spec == Init /\ [][Next]_vars

----------------------------------------------------------------------------
(* The voucher forms: handlePushToCloud and submitWithRetry *)

Forms == {"nepal", "india"}
InvoiceNos == 1..MaxInvoice

\* The last sync log the form loaded: none, or the range of invoice numbers of
\* the last push.
Metas ==
    {NoMeta} \cup
    {m \in [null : {FALSE}, start_voucher : InvoiceNos, end_voucher : InvoiceNos] :
        m.start_voucher <= m.end_voucher}

Min(a, b) == IF a <= b THEN a ELSE b

\* A guard that finds no duplicate.
NoDuplicatePushes(which, selection, meta) == {}

\* The selected invoice numbers inside the range of the last sync log. Nepal
\* compares with syncMeta?.start_voucher (undefined without a log: every
\* comparison is false), India with syncMeta?.start_voucher ?? 0.
duplicatePushes(which, selection, meta) ==
    IF which = "nepal"
    THEN {no \in selection : ~meta.null /\ no >= meta.start_voucher /\ no <= meta.end_voucher}
    ELSE {no \in selection : no >= meta.start_voucher /\ no <= meta.end_voucher}

\* selected.length, and the uploads a voucher counts for (purchase + sales in Nepal)
Selected(f) == Cardinality(f.selectedInvoiceNos)
PerVoucher(f) == IF f.which = "nepal" THEN 2 ELSE 1

\* The length of selected.slice(i, i + batchSize)
BatchLen(f) == Min(batchSize, Selected(f) - f.i)

\* finally { setPushing(false) } and, in the India form, setUploading(false)
Finally(f) ==
    [f EXCEPT !.pushing = FALSE,
              !.uploading = IF f.which = "india" THEN FALSE ELSE @,
              !.pc = "done"]

\* A loop that gives up one attempt later.
ExhaustedLate(attempt) == attempt > maxRetries + 1

\* if (attempt > maxRetries) return { success: false, retries: attempt - 1 }
Exhausted(attempt) == attempt > maxRetries

\* A call of submitWithRetry begins: attempt = 0 (Nepal), attempt = 1 (India)
BeginSubmit(f, type) ==
    [f EXCEPT !.type = type, !.attempt = IF f.which = "india" THEN 1 ELSE 0, !.pc = "post"]

\* After the loop: all failed, or the sync log is posted
AfterLoop(f) ==
    IF f.failed = Selected(f) * PerVoucher(f)
    THEN Finally([f EXCEPT !.uploading = FALSE])
    ELSE [f EXCEPT !.pc = "synclog"]

\* for (let i = 0; i < selected.length; i += batchSize)
LoopHead(f) ==
    IF f.i < Selected(f)
    THEN BeginSubmit(f, IF f.which = "nepal" THEN "purchase" ELSE "india")
    ELSE AfterLoop(f)

\* setUploadStats({ total, successful: 0, failed: 0, retried: 0 }) and the loop's start
StartLoop(f) ==
    LoopHead([f EXCEPT !.i = 0, !.successful = 0, !.failed = 0, !.retried = 0,
                       !.uploadStats = [total |-> Selected(f) * PerVoucher(f),
                                        successful |-> 0, failed |-> 0, retried |-> 0]])

\* if (result.success) successfulUploads += payload.length; else failedUploads +=
\* payload.length; totalRetries += result.retries
CountResult(f, result) ==
    [f EXCEPT !.successful = IF result.success THEN @ + BatchLen(f) ELSE @,
              !.failed = IF result.success THEN @ ELSE @ + BatchLen(f),
              !.retried = @ + result.retries]

\* submitWithRetry has returned `result`: the counts, setUploadStats, and the
\* next call (sales after purchase, or the next batch)
AfterSubmit(f, result) ==
    LET f1 == [CountResult(f, result) EXCEPT !.result = result]
        f2 == [f1 EXCEPT !.uploadStats = [total |-> Selected(f) * PerVoucher(f),
                                          successful |-> f1.successful,
                                          failed |-> f1.failed,
                                          retried |-> f1.retried]]
    IN IF f.which = "nepal" /\ f.type = "purchase"
       THEN BeginSubmit(f2, "sale")
       ELSE LoopHead([f2 EXCEPT !.i = @ + batchSize])

\* What a POST of `len` vouchers to an endpoint comes back with: an HTTP-ok
\* response, a response that is not ok, or a fetch that throws. okItems is
\* the number of items the response reports as successful: /api/nepal/sale
\* answers 200 with ok: false, 'idempotencyKey required' for every item of the
\* form, which carry no idempotencyKey.
Answers(type, len) ==
    { [kind |-> "ok", okItems |-> IF type = "sale" THEN 0 ELSE len],
      [kind |-> "notok", okItems |-> 0],
      [kind |-> "throw", okItems |-> 0] }

Sent(w, type, answer) ==
    [w EXCEPT ![type] = @ + 1, !.reportedOk = @ + answer.okItems]

FormInit ==
    /\ counters = <<>>
    /\ ledger = <<>>
    /\ cloud = EmptyBag
    /\ pc = [r \in Reqs |-> "idle"]
    /\ batch = [r \in Reqs |-> <<>>]
    /\ idx = [r \in Reqs |-> 1]
    /\ cand = [r \in Reqs |-> NoCand]
    /\ tx = [r \in Reqs |-> NoTx]
    /\ results = [r \in Reqs |-> <<>>]
    /\ commitLog = <<>>
    /\ received = 0
    /\ keysUsed = 0
    /\ \E which \in Forms : \E selection \in SUBSET InvoiceNos : \E meta \in Metas :
        form = [NoForm EXCEPT !.which = which, !.selectedInvoiceNos = selection,
                              !.syncMeta = meta]
    /\ wire = NoWire
    /\ syncRows = EmptyBag
    /\ sl = [h \in Handlers |-> NoCall]

\* handlePushToCloud up to its first await
handlePushToCloud ==
    /\ form.pc \in {"idle", "done"}
    /\ IF form.selectedInvoiceNos = {}
       THEN UNCHANGED <<form, wire>>
       ELSE LET f == [form EXCEPT !.modalOpen = TRUE, !.uploading = TRUE, !.pushing = TRUE,
                                  !.posts = 0, !.answer = "none", !.result = NoResult]
            IN /\ form' =
                    IF form.which = "nepal" THEN [f EXCEPT !.pc = "rate"]
                    ELSE IF duplicatePushes(f.which, f.selectedInvoiceNos, f.syncMeta) # {}
                    THEN Finally([f EXCEPT !.uploading = FALSE])
                    ELSE StartLoop(f)
               /\ wire' = IF form'.pc = "post" THEN NoWire ELSE wire
    /\ UNCHANGED <<saleVars, syncVars>>

\* The Nepal form after await fetchExchangeRate(): the duplicate guard
fetchExchangeRate ==
    /\ form.pc = "rate"
    /\ form' = IF duplicatePushes(form.which, form.selectedInvoiceNos, form.syncMeta) # {}
               THEN Finally([form EXCEPT !.uploading = FALSE])
               ELSE StartLoop(form)
    /\ wire' = IF form'.pc = "post" THEN NoWire ELSE wire
    /\ UNCHANGED <<saleVars, syncVars>>

\* One pass of the while loop of the Nepal form's submitWithRetry: the fetch
\* and what follows its answer
submitWithRetry ==
    /\ form.which = "nepal"
    /\ form.pc = "post"
    /\ \E answer \in Answers(form.type, BatchLen(form)) :
        LET f == [form EXCEPT !.posts = IF form.attempt = 0 THEN 1 ELSE @ + 1,
                              !.answer = answer.kind]
            attempt == form.attempt + 1
        IN /\ wire' = Sent(wire, form.type, answer)
           /\ form' =
                IF answer.kind = "ok"
                THEN AfterSubmit(f, [success |-> TRUE, retries |-> form.attempt])
                ELSE IF Exhausted(attempt)
                THEN AfterSubmit(f, [success |-> FALSE, retries |-> attempt - 1])
                ELSE [f EXCEPT !.attempt = attempt, !.pc = "backoff"]
    /\ UNCHANGED <<saleVars, syncVars>>

\* The India form's submitWithRetry(payload, attempt): retried only when the
\* fetch throws, at most to attempt 3
submitWithRetryIndia ==
    /\ form.which = "india"
    /\ form.pc = "post"
    /\ \E answer \in Answers(form.type, BatchLen(form)) :
        LET f == [form EXCEPT !.posts = IF form.attempt = 1 THEN 1 ELSE @ + 1,
                              !.answer = answer.kind]
        IN /\ wire' = Sent(wire, form.type, answer)
           /\ form' =
                IF answer.kind # "throw"
                THEN AfterSubmit(f, [success |-> answer.kind = "ok", retries |-> form.attempt - 1])
                ELSE IF form.attempt < 3
                THEN [f EXCEPT !.attempt = @ + 1, !.pc = "backoff"]
                ELSE AfterSubmit(f, [success |-> FALSE, retries |-> form.attempt - 1])
    /\ UNCHANGED <<saleVars, syncVars>>

\* await new Promise((r) => setTimeout(r, ...))
backoff ==
    /\ form.pc = "backoff"
    /\ form' = [form EXCEPT !.pc = "post"]
    /\ UNCHANGED <<wire, saleVars, syncVars>>

\* await fetch("/api/sync-log", ...) and the rest of handlePushToCloud: the
\* fetch resolves (its status is not looked at) or throws
postSyncLog ==
    /\ form.pc = "synclog"
    /\ wire' = [wire EXCEPT !.syncLog = @ + 1]
    /\ \/ form' = Finally([form EXCEPT !.uploading = FALSE, !.selectedInvoiceNos = {}])
       \/ form' = Finally(form)
    /\ UNCHANGED <<saleVars, syncVars>>

FormNext ==
    \/ handlePushToCloud
    \/ fetchExchangeRate
    \/ submitWithRetry
    \/ submitWithRetryIndia
    \/ backoff
    \/ postSyncLog

FormSpec == FormInit /\ [][FormNext]_vars

\* The event loop runs every continuation that is ready, and the user may
\* press the button again.
FormFairSpec == FormSpec /\ WF_vars(FormNext)

----------------------------------------------------------------------------
(* getCandidateNumber and the submission of one item, from a counter row that
   already holds n *)

NepalSales == <<"nepal", "Sales">>

CounterInputs == (0..MaxNo) \cup {9998, 9999}

PlainItem == [idempotencyKey |-> "k1", region |-> Undefined, vouchertype |-> Undefined]

\* Items that name their region, carry business fields and may carry a
\* voucherno of the caller's own.
CallerNo == <<"A", "Q", "N", "S", "/", "0", "0", "7">>

RichItems ==
    [idempotencyKey : {"k1"}, region : {Undefined, "nepal"}, vouchertype : {Undefined, "Sales"},
     narration : {"PNR"}, voucherno : {CallerNo}]
        \cup [idempotencyKey : {"k1"}, region : {Undefined, "nepal"}, vouchertype : {Undefined, "Sales"},
               narration : {"PNR"}]
        \cup [idempotencyKey : {"k1"}, region : {Undefined, "nepal"}, vouchertype : {Undefined, "Sales"},
               voucherno : {CallerNo}]

ItemInputs(n) == IF n = 0 THEN {PlainItem} \cup RichItems ELSE {PlainItem}

FunctionsInit ==
    /\ form = NoForm
    /\ wire = NoWire
    /\ syncRows = EmptyBag
    /\ sl = [h \in Handlers |-> NoCall]
    /\ \E n \in CounterInputs : \E item \in ItemInputs(n) :
        /\ counters = (NepalSales :> n)
        /\ batch = [r \in Reqs |-> IF r = "r1" THEN <<item>> ELSE <<>>]
    /\ ledger = <<>>
    /\ cloud = EmptyBag
    /\ pc = [r \in Reqs |-> IF r = "r1" THEN "read" ELSE "idle"]
    /\ idx = [r \in Reqs |-> 1]
    /\ cand = [r \in Reqs |-> NoCand]
    /\ tx = [r \in Reqs |-> NoTx]
    /\ results = [r \in Reqs |-> <<>>]
    /\ commitLog = <<>>
    /\ received = 1
    /\ keysUsed = 1

FunctionsNext == ReadCurrent("r1") \/ CloudPost("r1")

FunctionsSpec == FunctionsInit /\ [][FunctionsNext]_vars

----------------------------------------------------------------------------
(* commitNumber, called for an accepted voucher on a database in which the
   counter row holds n or is missing (removed or moved to a fiscal year
   outside this handler) *)

CommitInit ==
    /\ form = NoForm
    /\ wire = NoWire
    /\ syncRows = EmptyBag
    /\ sl = [h \in Handlers |-> NoCall]
    /\ \E n \in CounterInputs : \E missing \in BOOLEAN :
        /\ counters = IF missing THEN <<>> ELSE (NepalSales :> n)
        /\ cand = [r \in Reqs |-> IF r = "r1"
                                  THEN [next |-> NextOf(n), formatted |-> formatVoucherNo(NextOf(n))]
                                  ELSE NoCand]
        /\ cloud = SetToBag({[doc |-> PlainItem.idempotencyKey,
                              counterKey |-> CounterKey(PlainItem),
                              voucherno |-> formatVoucherNo(NextOf(n)),
                              sent |-> Payload(PlainItem, formatVoucherNo(NextOf(n)))]})
    /\ ledger = <<>>
    /\ pc = [r \in Reqs |-> IF r = "r1" THEN "update" ELSE "idle"]
    /\ batch = [r \in Reqs |-> IF r = "r1" THEN <<PlainItem>> ELSE <<>>]
    /\ idx = [r \in Reqs |-> 1]
    /\ tx = [r \in Reqs |-> NoTx]
    /\ results = [r \in Reqs |-> <<>>]
    /\ commitLog = <<>>
    /\ received = 1
    /\ keysUsed = 1

CommitNext == TxUpdate("r1") \/ TxInsert("r1") \/ TxCommit("r1")

CommitSpec == CommitInit /\ [][CommitNext]_vars

----------------------------------------------------------------------------
(* Helpers of the properties *)

CounterKeys == {<<"nepal", "Sales">>, <<"india", "Sales">>}

\* The requests inside the allocation section of counter key k: the candidate
\* has been read and the submission and the commit are not finished.
InAllocation(k) ==
    {r \in Reqs : pc[r] \in {"post", "update", "insert", "commit"} /\ CounterKey(Item(r)) = k}

\* The request r has taken a step.
Moved(r) == <<pc[r], idx[r]>> # <<pc'[r], idx'[r]>>

CloudMessages == {"statusmessage", "Cloud rejected", "Request failed"}

\* How often the cloud has accepted a voucher of the logical voucher `doc`.
TimesAccepted(doc) ==
    BagCardinality([e \in {x \in BagToSet(cloud) : x.doc = doc} |-> cloud[e]])

CommitsOf(k) == SelectSeq(commitLog, LAMBDA e : e.counterKey = k)

----------------------------------------------------------------------------
(* C1: two requests allocating for the same (region, voucherType) never both
   commit the same `next` value. *)
NoDoubleCommit ==
    \A i, j \in 1..Len(commitLog) :
        (i # j /\ commitLog[i].counterKey = commitLog[j].counterKey)
            => commitLog[i].next # commitLog[j].next

(* C2: per (region, voucherType), at most one request is between reading the
   candidate number and finishing its submission and commit. *)
AllocationMutex == \A k \in CounterKeys : Cardinality(InAllocation(k)) <= 1

(* C3: per (region, voucherType), the committed numbers in commit order are
   1, 2, 3, ...: each commit is the previous one plus 1. *)
CommitsAreSequential ==
    \A k \in CounterKeys :
        \A i \in 1..Len(CommitsOf(k)) : CommitsOf(k)[i].next = i

(* C4: currentNo of a (region, voucherType) never decreases in any step. *)
CounterNeverDecreases ==
    [][\A k \in DOMAIN counters : counters'[k] >= counters[k]]_vars

(* C5: no two ledger records with different idempotencyKeys of the same
   (region, voucherType) carry the same voucherNo, and the cloud has accepted
   no number of one (region, voucherType) for two different idempotencyKeys. *)
VoucherNosUnique ==
    /\ \A i, j \in 1..Len(ledger) :
        (/\ ledger[i].IdempotencyKey # ledger[j].IdempotencyKey
         /\ ledger[i].Region = ledger[j].Region
         /\ ledger[i].VoucherType = ledger[j].VoucherType)
            => ledger[i].VoucherNo # ledger[j].VoucherNo
    /\ \A e1, e2 \in BagToSet(cloud) :
        (e1.doc # e2.doc /\ e1.counterKey = e2.counterKey) => e1.voucherno # e2.voucherno

(* C6: for every idempotencyKey the cloud accepts a voucher at most once. *)
AcceptedAtMostOnce == \A key \in IKeys : TimesAccepted(key) <= 1

(* C7: once key K is in the ledger with voucherNo V, a submission of an item
   with key K is answered ok with V without touching counter, ledger or cloud;
   and every ok result carries the voucherNo the ledger holds for its key. *)
IdempotentResubmission ==
    /\ [](\A r \in Reqs : \A i \in 1..Len(results[r]) :
            results[r][i].ok =>
                \E j \in 1..Len(ledger) :
                    /\ ledger[j].IdempotencyKey = results[r][i].idempotencyKey
                    /\ ledger[j].VoucherNo = results[r][i].voucherno)
    /\ [][\A r \in Reqs :
            (/\ pc[r] = "loop"
             /\ idx[r] <= Len(batch[r])
             /\ LedgerKeyViolation(Item(r).idempotencyKey)
             /\ Moved(r))
                => /\ \A j \in 1..Len(ledger) :
                        ledger[j].IdempotencyKey = Item(r).idempotencyKey
                            => results'[r] = Append(results[r],
                                    Succeeded(Item(r).idempotencyKey, ledger[j].VoucherNo))
                   /\ counters' = counters
                   /\ ledger' = ledger
                   /\ cloud' = cloud]_vars

\* A batch that names one key twice: the first item committed, the second was
\* answered from the ledger.
ResubmissionAnswered ==
    \E r \in Reqs :
        /\ Len(results[r]) = 2
        /\ results[r][1].ok /\ results[r][2].ok
        /\ results[r][1].idempotencyKey = results[r][2].idempotencyKey
        /\ results[r][1].voucherno = results[r][2].voucherno
        /\ Len(ledger) = 1
        /\ CurrentNo(<<"nepal", "Sales">>) + CurrentNo(<<"india", "Sales">>) = 1

(* C8: each idempotencyKey has at most one ledger record, and a record is
   never updated or deleted: the ledger only grows at its end. *)
LedgerAppendOnlyFunctional ==
    /\ [](\A i, j \in 1..Len(ledger) :
            ledger[i].IdempotencyKey = ledger[j].IdempotencyKey => i = j)
    /\ [][/\ Len(ledger') >= Len(ledger)
          /\ SubSeq(ledger', 1, Len(ledger)) = ledger]_vars

\* A second insert of a recorded key has been refused and the record is still there.
DuplicateInsertRefused ==
    \E r \in Reqs : \E i \in 1..Len(results[r]) :
        /\ results[r][i].message = "Violation of PRIMARY KEY constraint"
        /\ Len(LedgerSelect(results[r][i].idempotencyKey)) = 1

(* C9: a request goes on to commit only for a voucher the cloud accepted, and
   the steps of an item up to and including a rejected or failed submission
   change no currentNo and no ledger row. *)
RejectionLeavesNoTrace ==
    /\ [](\A r \in Reqs :
            pc[r] \in {"update", "insert", "commit"} =>
                \E e \in BagToSet(cloud) :
                    /\ e.doc = Item(r).idempotencyKey
                    /\ e.counterKey = CounterKey(Item(r))
                    /\ e.voucherno = cand[r].formatted)
    /\ [][\A r \in Reqs :
            (pc[r] \in {"loop", "ensure", "read", "post"} /\ Moved(r))
                => /\ \A k \in CounterKeys : CurrentNo(k)' = CurrentNo(k)
                   /\ ledger' = ledger
                   /\ (pc[r] = "post" /\ pc'[r] = "loop"
                        => /\ ~results'[r][Len(results'[r])].ok
                           /\ results'[r][Len(results'[r])].message \in CloudMessages)]_vars

\* An item was rejected by the cloud after its counter row was created, and
\* counter and ledger show nothing of it.
RejectedWithoutTrace ==
    \E r \in Reqs :
        /\ Len(results[r]) >= 1
        /\ results[r][1].message \in CloudMessages
        /\ CounterKey(batch[r][1]) \in DOMAIN counters
        /\ counters[CounterKey(batch[r][1])] = 0
        /\ ledger = <<>>

(* C10: a commit makes the counter bump and the ledger insert visible in one
   step, and no step changes one of the two tables without the other: a
   transaction that fails leaves both as they were. *)
CommitIsAtomic ==
    [][/\ (ledger' # ledger \/ commitLog' # commitLog) =>
            /\ Len(commitLog') = Len(commitLog) + 1
            /\ LET e == commitLog'[Len(commitLog')]
               IN /\ commitLog' = Append(commitLog, e)
                  /\ ledger' = Append(ledger,
                        [IdempotencyKey |-> e.idempotencyKey, Region |-> e.counterKey[1],
                         VoucherType |-> e.counterKey[2], VoucherNo |-> e.voucherNo])
                  /\ e.counterKey \in DOMAIN counters
                  /\ counters' = [counters EXCEPT ![e.counterKey] = e.next]
       /\ (\E k \in DOMAIN counters : counters'[k] # counters[k]) => ledger' # ledger]_vars

\* A transaction was rolled back after its UPDATE, and the counter still shows
\* the last committed number.
RolledBackAfterUpdate ==
    \E r \in Reqs : \E i \in 1..Len(results[r]) :
        /\ results[r][i].message = "Violation of PRIMARY KEY constraint"
        /\ Len(commitLog) >= 1
        /\ counters[commitLog[Len(commitLog)].counterKey] = commitLog[Len(commitLog)].next

(* C11: a response that carries results carries exactly one result per item of
   `data`, in the order of `data`: while the loop runs, the results so far are
   those of the items passed, each under its item's key, and the handler
   returns 200 only when every item has its result. *)
OneResultPerItemInOrder ==
    /\ [](\A r \in Reqs :
            pc[r] \notin Returned =>
                /\ Len(results[r]) = idx[r] - 1
                /\ Len(results[r]) <= Len(batch[r])
                /\ \A i \in 1..Len(results[r]) :
                        results[r][i].idempotencyKey =
                            IF batch[r][i].idempotencyKey = Undefined THEN "(missing)"
                            ELSE batch[r][i].idempotencyKey)
    /\ [][\A r \in Reqs :
            (pc[r] \notin Returned /\ pc'[r] = "sent200")
                => Len(results[r]) = Len(batch[r])]_vars

\* [A, B, C] with B rejected by the cloud and A, C committed: all three results
\* are there, in that order, and the handler is about to return.
OkFailedOk ==
    \E r \in Reqs :
        /\ Len(batch[r]) = 3
        /\ pc[r] = "loop"
        /\ idx[r] = 4
        /\ results[r][1].ok /\ ~results[r][2].ok /\ results[r][3].ok
        /\ results[r][2].message \in CloudMessages
        /\ batch[r][1].idempotencyKey # batch[r][3].idempotencyKey
        /\ Len(ledger) = 2

(* C12: an item without idempotencyKey gets the failed result 'idempotencyKey
   required' in one step that changes no table, no cloud state, no candidate
   and no transaction, the loop goes on to the next item, and no handler is
   ever inside the lookup, the allocation, the submission or the commit for
   such an item. *)
MissingKeyFailsFast ==
    /\ [](\A r \in Reqs :
            pc[r] \in {"ensure", "read", "post", "update", "insert", "commit"}
                => Item(r).idempotencyKey # Undefined)
    /\ [][\A r \in Reqs :
            (/\ pc[r] = "loop"
             /\ idx[r] <= Len(batch[r])
             /\ Item(r).idempotencyKey = Undefined
             /\ Moved(r))
                => /\ results'[r] = Append(results[r],
                            Failed("(missing)", "idempotencyKey required"))
                   /\ pc'[r] = "loop"
                   /\ idx'[r] = idx[r] + 1
                   /\ UNCHANGED <<counters, ledger, cloud, commitLog, cand, tx>>]_vars

\* A keyless item was refused while the tables were empty, and the item after
\* it went through to its commit.
MissingThenCommitted ==
    \E r \in Reqs :
        /\ Len(results[r]) >= 2
        /\ results[r][1] = Failed("(missing)", "idempotencyKey required")
        /\ results[r][2].ok
        /\ Len(commitLog) = 1

(* C13: nothing that happens once the loop over the items has begun makes the
   handler return HTTP 500: a handler that is running never answers 500. *)
PerItemErrorsNeverAbort ==
    [][\A r \in Reqs : pc[r] \notin Returned => pc'[r] # "sent500"]_vars

(* C14: an item whose key is in the ledger when the handler looks it up is
   answered with the recorded voucherNo in that one step, with no candidate
   read and no call to the cloud; a handler goes on to the counter and the
   cloud only for a key the ledger did not hold at the lookup. *)
LedgerShortCircuit ==
    [][\A r \in Reqs :
        (pc[r] = "loop" /\ idx[r] <= Len(batch[r]) /\ Moved(r)) =>
            LET key == Item(r).idempotencyKey
                rows == {j \in 1..Len(ledger) : ledger[j].IdempotencyKey = key}
            IN /\ rows # {} =>
                    /\ pc'[r] = "loop"
                    /\ idx'[r] = idx[r] + 1
                    /\ cand' = cand
                    /\ cloud' = cloud
                    /\ results'[r][Len(results'[r])].ok
                    /\ \E j \in rows :
                            results'[r][Len(results'[r])].voucherno = ledger[j].VoucherNo
               /\ pc'[r] = "ensure" => rows = {}]_vars

\* k1 was committed once; a request resubmitting k1 together with the new k2
\* has answered k1 from the ledger and is at the cloud call for k2 only.
ReusedThenSubmitsRest ==
    \E r \in Reqs : \E q \in Reqs \ {r} :
        /\ Len(batch[r]) = 2 /\ Len(batch[q]) = 1
        /\ batch[q][1].idempotencyKey = batch[r][1].idempotencyKey
        /\ batch[r][2].idempotencyKey \in IKeys \ {batch[r][1].idempotencyKey}
        /\ Len(results[q]) = 1 /\ results[q][1].ok
        /\ results[r] = results[q]
        /\ pc[r] = "post" /\ idx[r] = 2
        /\ Len(commitLog) = 1
        /\ BagCardinality(cloud) = 1

\* The number a string of decimal digits denotes.
DigitValue(c) == (CHOOSE i \in 1..10 : DigitChars[i] = c) - 1

RECURSIVE DecimalValue(_)
DecimalValue(s) ==
    IF s = <<>> THEN 0
    ELSE 10 * DecimalValue(SubSeq(s, 1, Len(s) - 1)) + DigitValue(s[Len(s)])

RECURSIVE NumDigits(_)
NumDigits(n) == IF n < 10 THEN 1 ELSE 1 + NumDigits(n \div 10)

(* C15: the formatted number of a candidate n >= 1 is 'AQNS/' followed by
   decimal digits that denote n, three of them when n < 1000 and as many as n
   has when n >= 1000 (so distinct n give distinct strings); 1, 999, 1000,
   1999 and 10000 give AQNS/001, AQNS/999, AQNS/1000, AQNS/1999, AQNS/10000. *)
FormatIsPaddedDecimal ==
    \A r \in Reqs :
        cand[r] # NoCand =>
            LET n == cand[r].next
                s == cand[r].formatted
                d == SubSeq(s, 6, Len(s))
            IN /\ n >= 1
               /\ SubSeq(s, 1, 5) = <<"A", "Q", "N", "S", "/">>
               /\ \A i \in 1..Len(d) : \E j \in 1..10 : DigitChars[j] = d[i]
               /\ DecimalValue(d) = n
               /\ Len(d) = IF n < 1000 THEN 3 ELSE NumDigits(n)
               /\ n = 1 => s = <<"A", "Q", "N", "S", "/", "0", "0", "1">>
               /\ n = 999 => s = <<"A", "Q", "N", "S", "/", "9", "9", "9">>
               /\ n = 1000 => s = <<"A", "Q", "N", "S", "/", "1", "0", "0", "0">>
               /\ n = 1999 => s = <<"A", "Q", "N", "S", "/", "1", "9", "9", "9">>
               /\ n = 10000 => s = <<"A", "Q", "N", "S", "/", "1", "0", "0", "0", "0">>

\* The candidate after 9999 has been formatted: five digits, none cut off.
FormattedTenThousand ==
    \E r \in Reqs :
        /\ cand[r].next = 10000
        /\ cand[r].formatted = <<"A", "Q", "N", "S", "/", "1", "0", "0", "0", "0">>

(* C16: when the only items received so far are those of one batch of new
   nepal items with distinct keys and every one of them got an ok result, the
   i-th result carries number i (AQNS/001, AQNS/002, AQNS/003 for three), the
   ledger holds the items' rows in input order and the counter equals the
   number of items. *)
SequentialBatchNumbering ==
    \A r \in Reqs :
        (/\ pc[r] = "loop"
         /\ idx[r] > Len(batch[r])
         /\ received = Len(batch[r])
         /\ \A i \in 1..Len(batch[r]) :
                /\ batch[r][i].idempotencyKey \in IKeys
                /\ results[r][i].ok
         /\ \A i, j \in 1..Len(batch[r]) :
                batch[r][i].idempotencyKey = batch[r][j].idempotencyKey => i = j)
            => /\ \A i \in 1..Len(batch[r]) :
                    LET v == results[r][i].voucherno
                    IN /\ SubSeq(v, 1, 5) = <<"A", "Q", "N", "S", "/">>
                       /\ DecimalValue(SubSeq(v, 6, Len(v))) = i
                       /\ Len(v) = 8
                       /\ ledger[i].IdempotencyKey = batch[r][i].idempotencyKey
                       /\ ledger[i].VoucherNo = v
               /\ Len(ledger) = Len(batch[r])
               /\ CurrentNo(NepalSales) = Len(batch[r])

\* Three new items, all accepted and committed, from an empty database.
ThreeInOrder ==
    \E r \in Reqs :
        /\ pc[r] = "loop" /\ idx[r] = 4 /\ received = 3
        /\ \A i \in 1..3 : results[r][i].ok
        /\ [i \in 1..3 |-> results[r][i].voucherno] =
                << <<"A", "Q", "N", "S", "/", "0", "0", "1">>,
                   <<"A", "Q", "N", "S", "/", "0", "0", "2">>,
                   <<"A", "Q", "N", "S", "/", "0", "0", "3">> >>
        /\ \A i, j \in 1..3 : batch[r][i].idempotencyKey = batch[r][j].idempotencyKey => i = j
        /\ Len(ledger) = 3
        /\ counters[NepalSales] = 3

\* No handler is running.
Quiescent == \A r \in Reqs : pc[r] \in Returned

LedgerRowsOf(k) == {j \in 1..Len(ledger) : <<ledger[j].Region, ledger[j].VoucherType>> = k}

AcceptedOf(k) == {e \in BagToSet(cloud) : e.counterKey = k}

(* C17: whenever no request is in flight, for each (region, voucherType) the
   counter equals the number of its ledger records and the number of vouchers
   the cloud has accepted for it, and the accepted numbers are exactly
   1..currentNo. *)
QuiescentConsistency ==
    Quiescent =>
        \A k \in CounterKeys :
            /\ CurrentNo(k) = Cardinality(LedgerRowsOf(k))
            /\ CurrentNo(k) = BagCardinality([e \in AcceptedOf(k) |-> cloud[e]])
            /\ {DecimalValue(SubSeq(e.voucherno, 6, Len(e.voucherno))) : e \in AcceptedOf(k)}
                    = 1..CurrentNo(k)

(* C18: the document the cloud receives for an item has no idempotencyKey and
   no region field; its fields are the item's other fields with the item's
   values, and voucherno, which holds the number the server assigned whatever
   voucherno the item carried. *)
PayloadHasNoInternalFields ==
    \A r \in Reqs : \A e \in BagToSet(cloud) :
        (pc[r] = "update" /\ e.doc = Item(r).idempotencyKey) =>
            /\ "idempotencyKey" \notin DOMAIN e.sent
            /\ "region" \notin DOMAIN e.sent
            /\ DOMAIN e.sent = (DOMAIN Item(r) \ {"idempotencyKey", "region"}) \cup {"voucherno"}
            /\ \A f \in DOMAIN e.sent \ {"voucherno"} : e.sent[f] = Item(r)[f]
            /\ e.sent.voucherno = cand[r].formatted

\* The cloud accepted the document of an item that named its region and
\* carried a voucherno of its own: it holds the server's number.
CallerNoOverridden ==
    \E r \in Reqs : \E e \in BagToSet(cloud) :
        /\ pc[r] = "update"
        /\ Item(r).region = "nepal"
        /\ "voucherno" \in DOMAIN Item(r)
        /\ "narration" \in DOMAIN Item(r)
        /\ Item(r).voucherno = CallerNo
        /\ e.sent.voucherno # CallerNo
        /\ e.sent.narration = Item(r).narration

(* C19: the counter row of a (region, voucherType) is created or changed only
   by a step of a request that is processing an item of that very key, and the
   UPDATE of a request waits only for an open transaction on its own key. *)
CountersIndependent ==
    /\ [](\A r \in Reqs :
            (pc[r] = "update" /\ RowLockedByOther(r, CounterKey(Item(r)))) =>
                \E q \in Reqs \ {r} :
                    /\ pc[q] \in {"insert", "commit"}
                    /\ CounterKey(Item(q)) = CounterKey(Item(r)))
    /\ [][\A k \in CounterKeys :
            (\/ CurrentNo(k)' # CurrentNo(k)
             \/ (k \in DOMAIN counters') # (k \in DOMAIN counters))
                => \E r \in Reqs :
                        /\ Moved(r)
                        /\ pc[r] \in {"ensure", "commit"}
                        /\ CounterKey(Item(r)) = k]_vars

\* Two requests in flight: the india one has committed its item, the nepal
\* one holds an open transaction, and the nepal counter still shows 0.
IndiaCommittedBesideNepal ==
    \E r \in Reqs : \E q \in Reqs \ {r} :
        /\ pc[q] = "loop" /\ Len(results[q]) = 1 /\ results[q][1].ok
        /\ CounterKey(batch[q][1]) = <<"india", "Sales">>
        /\ pc[r] = "commit"
        /\ CounterKey(Item(r)) = NepalSales
        /\ counters[NepalSales] = 0
        /\ <<"india", "Sales">> \in DOMAIN counters
        /\ counters[<<"india", "Sales">>] = 1
        /\ Len(commitLog) = 1

(* C20: every item the Nepal voucher form posts to /api/nepal/sale carries a
   non-empty idempotencyKey, and none of them is answered 'idempotencyKey
   required'. *)
FormItemsCarryKey ==
    \A r \in Reqs :
        /\ \A i \in 1..Len(batch[r]) :
                "branchName" \in DOMAIN batch[r][i]
                    => batch[r][i].idempotencyKey \notin {Undefined, ""}
        /\ \A i \in 1..Len(results[r]) :
                "branchName" \in DOMAIN batch[r][i]
                    => results[r][i].message # "idempotencyKey required"

\* The digits of a formatted voucher number.
DigitsOf(v) == SubSeq(v, 6, Len(v))

(* C21: a handler enters commitNumber only by the step in which the cloud
   accepts the document of its item under its candidate number; the candidate
   stays the same up to the commit; and the ledger grows only by the commit of
   a handler, with the row (K, V) of that handler's key and candidate, in the
   step that sets the counter to the integer V was formatted from. *)
RecordOnlyAfterAcceptance ==
    /\ [][\A r \in Reqs :
            /\ (pc'[r] = "update" /\ pc[r] # "update") =>
                    /\ pc[r] = "post"
                    /\ cand'[r] = cand[r]
                    /\ \E e \in BagToSet(cloud') :
                            /\ e.doc = Item(r).idempotencyKey
                            /\ e.sent.voucherno = cand[r].formatted
                            /\ cloud' = cloud (+) SetToBag({e})
            /\ pc'[r] \in {"insert", "commit"} =>
                    /\ pc[r] \in {"update", "insert", "commit"}
                    /\ cand'[r] = cand[r]]_vars
    /\ [][ledger' # ledger =>
            \E r \in Reqs :
                /\ pc[r] = "commit"
                /\ Moved(r)
                /\ Len(ledger') = Len(ledger) + 1
                /\ ledger'[Len(ledger')].IdempotencyKey = Item(r).idempotencyKey
                /\ ledger'[Len(ledger')].VoucherNo = cand[r].formatted
                /\ counters'[CounterKey(Item(r))] = cand[r].next
                /\ DecimalValue(DigitsOf(cand[r].formatted)) = cand[r].next]_vars

\* The second number of nepal/Sales is recorded: accepted once by the cloud,
\* in the ledger, and the counter stands at 2.
SecondNumberRecorded ==
    \E j \in 1..Len(ledger) : \E e \in BagToSet(cloud) :
        /\ ledger[j].VoucherNo = <<"A", "Q", "N", "S", "/", "0", "0", "2">>
        /\ e.doc = ledger[j].IdempotencyKey
        /\ e.voucherno = ledger[j].VoucherNo
        /\ cloud[e] = 1
        /\ counters[NepalSales] = 2

(* C22: the step that receives the cloud's answer goes on to commitNumber
   exactly when the answer is the accepted one (the one with which the cloud
   has stored the voucher: an array whose first element has statuscode "101"
   or 101); on every other answer the item gets a failed result with the
   rejection's message, and no transaction is begun. *)
AcceptedIffCode101 ==
    [][\A r \in Reqs :
        (pc[r] = "post" /\ Moved(r)) =>
            /\ (pc'[r] = "update") <=> (cloud' # cloud)
            /\ pc'[r] # "update" =>
                    /\ pc'[r] = "loop"
                    /\ idx'[r] = idx[r] + 1
                    /\ ~results'[r][Len(results'[r])].ok
                    /\ results'[r][Len(results'[r])].message \in CloudMessages
                    /\ tx'[r] = NoTx
                    /\ UNCHANGED <<counters, ledger, commitLog>>]_vars

\* One batch met the three kinds of rejection: a thrown request, a status
\* code other than 101 and a body without a status code.
ThreeRejections ==
    \E r \in Reqs :
        /\ Len(results[r]) = 3
        /\ {results[r][i].message : i \in 1..3} = CloudMessages
        /\ cloud = EmptyBag
        /\ ledger = <<>>

(* C23: when the counter row of the item's key is missing at the UPDATE of
   commitNumber, the step reports the item failed with an error message, the
   transaction is gone, and counter table and ledger are unchanged. *)
ZeroRowsIsAnError ==
    [][\A r \in Reqs :
        (pc[r] = "update" /\ CounterKey(Item(r)) \notin DOMAIN counters /\ Moved(r)) =>
            /\ pc'[r] = "loop"
            /\ ~results'[r][Len(results'[r])].ok
            /\ results'[r][Len(results'[r])].message
                    \in {"CRITICAL: Failed to update voucher counter", "db error"}
            /\ tx'[r] = NoTx
            /\ UNCHANGED <<counters, ledger, commitLog>>]_vars

\* The UPDATE found no row: the item is failed with the CRITICAL message and
\* nothing was written.
ZeroRowsReported ==
    \E r \in Reqs :
        /\ Len(results[r]) = 1
        /\ results[r][1].message = "CRITICAL: Failed to update voucher counter"
        /\ counters = <<>>
        /\ ledger = <<>>

(* C24: when a handler reaches its ledger INSERT for a key the ledger already
   holds, the step fails the item with the key violation, discards the
   handler's uncommitted counter UPDATE, and leaves counter table and ledger
   as they were, the ledger with exactly one row for the key. *)
SecondInsertFailsLoudly ==
    [][\A r \in Reqs :
        (/\ pc[r] = "insert"
         /\ \E j \in 1..Len(ledger) : ledger[j].IdempotencyKey = Item(r).idempotencyKey
         /\ Moved(r)) =>
            /\ pc'[r] = "loop"
            /\ ~results'[r][Len(results'[r])].ok
            /\ results'[r][Len(results'[r])].message
                    \in {"Violation of PRIMARY KEY constraint", "db error"}
            /\ tx[r].ctr # <<>> /\ tx'[r] = NoTx
            /\ UNCHANGED <<counters, ledger, commitLog>>
            /\ Cardinality({j \in 1..Len(ledger') :
                    ledger'[j].IdempotencyKey = Item(r).idempotencyKey}) = 1]_vars

\* Two requests with the same key were both accepted by the cloud; one
\* committed, the other was refused at its INSERT.
BothAcceptedOneRecorded ==
    \E r \in Reqs : \E q \in Reqs \ {r} :
        /\ Len(results[r]) = 1 /\ Len(results[q]) = 1
        /\ results[r][1].ok
        /\ results[q][1].message = "Violation of PRIMARY KEY constraint"
        /\ results[q][1].idempotencyKey = results[r][1].idempotencyKey
        /\ TimesAccepted(results[r][1].idempotencyKey) = 2
        /\ Len(ledger) = 1
        /\ counters[NepalSales] = 1

(* C25: a commitNumber that fails leaves counter table, ledger and the
   cloud's accepted vouchers as they were and fails the item; a later lookup
   of a key without ledger row goes on to the allocation; and the candidate
   read is the committed counter plus one, so that with the counter unchanged
   the retry posts the same number again. *)
CommitFailureThenRetry ==
    [][\A r \in Reqs :
        /\ (pc[r] \in {"update", "insert", "commit"} /\ pc'[r] = "loop"
                /\ ~results'[r][Len(results'[r])].ok)
              => UNCHANGED <<counters, ledger, cloud, commitLog>>
        /\ (/\ pc[r] = "loop" /\ idx[r] <= Len(batch[r]) /\ Moved(r)
             /\ Item(r).idempotencyKey \in IKeys
             /\ \A j \in 1..Len(ledger) : ledger[j].IdempotencyKey # Item(r).idempotencyKey)
              => pc'[r] = "ensure"
        /\ (pc[r] = "read" /\ Moved(r))
              => /\ pc'[r] = "post"
                 /\ cand'[r].next = CurrentNo(CounterKey(Item(r))) + 1
                 /\ DecimalValue(DigitsOf(cand'[r].formatted)) = cand'[r].next]_vars

\* The only batch so far names k1 twice: the first attempt was accepted as
\* AQNS/001 and failed in its commit, and the retry has been accepted under
\* AQNS/001 again, with counter 0 and an empty ledger.
SameNumberSubmittedTwice ==
    \E r \in Reqs : \E e \in BagToSet(cloud) :
        /\ received = 2 /\ Len(batch[r]) = 2
        /\ batch[r][1].idempotencyKey = batch[r][2].idempotencyKey
        /\ Len(results[r]) = 1
        /\ results[r][1].message = "db error"
        /\ pc[r] = "update" /\ idx[r] = 2
        /\ e.voucherno = <<"A", "Q", "N", "S", "/", "0", "0", "1">>
        /\ cloud[e] = 2
        /\ ledger = <<>>
        /\ counters[NepalSales] = 0

----------------------------------------------------------------------------
(* POST /api/sync-log *)

Regions == {"nepal", "india"}
VoucherTypes == {"sales"}

\* The bodies the forms post: the pair and the range of the push
Bodies == [region : Regions, voucher_type : VoucherTypes, end_voucher : InvoiceNos]

\* The rows of TallyVoucherSyncLog WHERE region = @region AND voucher_type = @voucher_type
RowsOfPair(rows, region, voucher_type) ==
    [row \in {x \in DOMAIN rows : x.region = region /\ x.voucher_type = voucher_type}
        |-> rows[row]]

\* SELECT COUNT(*) as count ... WHERE region = @region AND voucher_type = @voucher_type
CountOfPair(rows, region, voucher_type) ==
    BagCardinality(RowsOfPair(rows, region, voucher_type))

\* UPDATE TallyVoucherSyncLog SET ... WHERE region = @region AND voucher_type =
\* @voucher_type: every row of the pair takes the body's values
UpdateLog(rows, body) ==
    LET n == CountOfPair(rows, body.region, body.voucher_type)
        rest == rows (-) RowsOfPair(rows, body.region, body.voucher_type)
    IN IF n = 0 THEN rows ELSE rest (+) [row \in {body} |-> n]

\* INSERT INTO TallyVoucherSyncLog (...) VALUES (...)
InsertLog(rows, body) == rows (+) SetToBag({body})

SyncLogInit ==
    /\ counters = <<>>
    /\ ledger = <<>>
    /\ cloud = EmptyBag
    /\ pc = [r \in Reqs |-> "idle"]
    /\ batch = [r \in Reqs |-> <<>>]
    /\ idx = [r \in Reqs |-> 1]
    /\ cand = [r \in Reqs |-> NoCand]
    /\ tx = [r \in Reqs |-> NoTx]
    /\ results = [r \in Reqs |-> <<>>]
    /\ commitLog = <<>>
    /\ received = 0
    /\ keysUsed = 0
    /\ form = NoForm
    /\ wire = NoWire
    /\ syncRows = EmptyBag
    /\ sl = [h \in Handlers |-> NoCall]

\* The session check and the body: 401 without a user id
SyncLogReceive(h) ==
    /\ sl[h].pc = "idle"
    /\ \/ sl' = [sl EXCEPT ![h] = [NoCall EXCEPT !.status = 401]]
       \/ \E body \in Bodies :
            sl' = [sl EXCEPT ![h] = [NoCall EXCEPT !.pc = "select", !.body = body]]
    /\ UNCHANGED <<syncRows, saleVars, formVars>>

\* const logExists = existingLog.recordset[0].count > 0; a query that throws
\* is answered 500
SyncLogSelect(h) ==
    /\ sl[h].pc = "select"
    /\ \/ sl' = [sl EXCEPT ![h].pc = "write",
                            ![h].logExists =
                                CountOfPair(syncRows, sl[h].body.region,
                                            sl[h].body.voucher_type) > 0]
       \/ sl' = [sl EXCEPT ![h].pc = "idle", ![h].status = 500]
    /\ UNCHANGED <<syncRows, saleVars, formVars>>

\* if (logExists) UPDATE else INSERT, then 200; a query that throws is
\* answered 500
SyncLogWrite(h) ==
    /\ sl[h].pc = "write"
    /\ \/ /\ syncRows' = IF sl[h].logExists
                          THEN UpdateLog(syncRows, sl[h].body)
                          ELSE InsertLog(syncRows, sl[h].body)
          /\ sl' = [sl EXCEPT ![h].pc = "idle", ![h].status = 200]
       \/ /\ sl' = [sl EXCEPT ![h].pc = "idle", ![h].status = 500]
          /\ UNCHANGED syncRows
    /\ UNCHANGED <<saleVars, formVars>>

SyncLogNext ==
    \E h \in Handlers :
        \/ SyncLogReceive(h)
        \/ SyncLogSelect(h)
        \/ SyncLogWrite(h)

SyncLogSpec == SyncLogInit /\ [][SyncLogNext]_vars

----------------------------------------------------------------------------
(* The voucher forms *)

(* C26: once handlePushToCloud has finished after opening the modal, on any
   path, pushing and uploading are both false, in the India form and in the
   Nepal form. *)
FlagsResetWhenFinished ==
    (form.pc = "done" /\ form.modalOpen) => (~form.pushing /\ ~form.uploading)

(* C27: in the Nepal form the successful count of the upload progress modal
   never exceeds the number of items the endpoints reported as successful. *)
SuccessfulNeverExceedsReported ==
    form.which = "nepal" => form.uploadStats.successful <= wire.reportedOk

(* C28: a call of the Nepal form's submitWithRetry makes at most 3 POSTs and
   returns: on the first HTTP-ok answer with success and the number of failed
   attempts before it (0..2) as retries, and after 3 failed attempts (thrown or
   not ok) with failure and retries 2; it goes on to another attempt only
   after an answer that is not ok, and fewer than 3 POSTs. *)
SubmitWithRetryTerminates ==
    /\ [](form.which = "nepal" => form.posts <= 3)
    /\ [][(form.which = "nepal" /\ form.pc = "post" /\ form'.pc # "backoff")
            => /\ form'.posts \in 1..3
               /\ form'.answer = "ok"
                    => form'.result = [success |-> TRUE, retries |-> form'.posts - 1]
               /\ form'.answer # "ok"
                    => /\ form'.posts = 3
                       /\ form'.result = [success |-> FALSE, retries |-> 2]]_vars
    /\ [][(form.which = "nepal" /\ form.pc = "post" /\ form'.pc = "backoff")
            => (form'.answer # "ok" /\ form'.posts < 3 /\ form'.type = form.type
                /\ form'.i = form.i)]_vars
    /\ \A type \in {"purchase", "sale"} : \A i \in 0..(MaxInvoice - 1) :
          (form.which = "nepal" /\ form.pc = "post" /\ form.attempt = 0
              /\ form.type = type /\ form.i = i)
            ~> ~(form.pc \in {"post", "backoff"} /\ form.type = type /\ form.i = i)

\* A call has returned success on its third POST, after two failed attempts.
ThirdAttemptSucceeds ==
    /\ form.which = "nepal"
    /\ form.posts = 3
    /\ form.answer = "ok"
    /\ form.result = [success |-> TRUE, retries |-> 2]

\* A selected invoice number lies in the range of the loaded sync log.
SelectedInPushedRange ==
    \E no \in form.selectedInvoiceNos :
        /\ ~form.syncMeta.null
        /\ no >= form.syncMeta.start_voucher
        /\ no <= form.syncMeta.end_voucher

(* C29: while a selected invoice number lies in the range of the last sync
   log, handlePushToCloud posts nothing to the purchase, sale or India
   endpoint, does not post the sync log, and leaves the selection as it is. *)
DuplicateGuardSendsNothing ==
    /\ [](SelectedInPushedRange
            => (wire = NoWire /\ form.pc \notin {"post", "backoff", "synclog"}))
    /\ [][SelectedInPushedRange
            => (wire' = wire /\ form'.selectedInvoiceNos = form.selectedInvoiceNos)]_vars

\* The guard has stopped a push: the modal was opened and the handler is done.
DuplicatePushStopped ==
    /\ SelectedInPushedRange
    /\ form.pc = "done"
    /\ form.modalOpen
    /\ ~form.pushing

(* C30: whatever the order or interleaving of authenticated POSTs to
   /api/sync-log, TallyVoucherSyncLog holds at most one row for each
   (region, voucher_type). *)
AtMostOneRowPerPair ==
    \A region \in Regions : \A voucher_type \in VoucherTypes :
        CountOfPair(syncRows, region, voucher_type) <= 1

====
